---- MODULE Spec2Model ----
(***************************************************************************)
(* Model of homeassistant/helpers/discovery.py: the service and platform   *)
(* discovery helpers on top of the event bus, the event loop and the       *)
(* component setup subsystem.                                              *)
(*                                                                         *)
(* Python values are modelled as strings, None as the token None; an event *)
(* data dict is a function whose DOMAIN is the set of keys it holds, so an *)
(* absent key and a key holding a value differ.                            *)
(***************************************************************************)
EXTENDS Integers, Sequences, FiniteSets, TLC

\* ------------------------------------------------------------------ bounds
MaxCalls == 1
MaxListeners == 2
MaxConcurrent == 2

\* --------------------------------------------------------------- constants
\* the template "load_platform.{}": format(component) puts the component
\* after this prefix
EVENT_LOAD_PLATFORM == "load_platform."
ATTR_PLATFORM == "platform"
ATTR_SERVICE == "service"
ATTR_DISCOVERED == "discovered"
DEPENDENCY_BLACKLIST == {"config"}

None == "<None>"

\* ------------------------------------------------------------ input values
Components == {"hub", "config"}
ListenComponents == {"hub", "other", "config"}
Services == {"hub", "load_platform.hub"}
ListenServices == {"hub"}
ServiceCollections == {<<"hub", "load_platform.hub">>}
Platforms == {"driverA", ""}
Payloads == {None, "{}", "{id: 1}"}
Configs == {{}, {"homeassistant"}}
RealConfig == {"homeassistant"}
\* arguments of the calls made concurrently
ConcurrentPlatforms == {"driverA", "driverB"}
ConcurrentPayloads == {None, "{id: 1}"}
\* cbA is decorated with @core.callback, cbB is a coroutine function.
Callbacks == {"cbA", "cbB"}
\* what another producer may put on the shared topic
RawEvents ==
    { (ATTR_PLATFORM :> "driverA"),
      (ATTR_SERVICE :> "load_platform.hub"),
      (ATTR_SERVICE :> "load_platform.hub" @@ ATTR_PLATFORM :> ""),
      (ATTR_SERVICE :> "load_platform.hub" @@ ATTR_PLATFORM :> "driverB"
          @@ ATTR_DISCOVERED :> "{id: 2}") }

VARIABLES
    components,   \* hass.config.components
    listeners,    \* hass.bus listeners of EVENT_PLATFORM_DISCOVERED, in order
    loop,         \* hass.loop: the FIFO of scheduled units of work
    calls,        \* the producers' calls made so far, in order
    history,      \* log: activation calls and returns, broadcasts, invocations
    threads,      \* the external threads inside a blocking listen call
    setup         \* the activation routine of a component that loads its
                  \* own platform, as run by the activation subsystem

vars == <<components, listeners, loop, calls, history, threads, setup>>

\* ----------------------------------------------------------------- helpers
\* dict.get(key): the value, or None when the key is absent
Get(data, key) == IF key \in DOMAIN data THEN data[key] ELSE None

\* Python truthiness of an optional string
Truthy(v) == v # None /\ v # ""

\* x in tuple
InTuple(x, t) == \E i \in DOMAIN t : t[i] = x

\* EVENT_LOAD_PLATFORM.format(component)
LoadPlatformService(component) == EVENT_LOAD_PLATFORM \o component

\* core.is_callback(func): the function carries the @callback mark
is_callback(cb) == cb = "cbA"

NoData == <<>>
NoArgs == <<>>

Job(type, call, reg, ev, args) ==
    [type |-> type, call |-> call, reg |-> reg, ev |-> ev, args |-> args]

\* a log entry; a broadcast is stamped with the components active and the
\* number of listeners registered at that moment, an activation call with the
\* components active at that moment
Entry(what, call, reg, ev, data, args) ==
    [what |-> what, call |-> call, reg |-> reg, ev |-> ev, data |-> data,
     args |-> args,
     active |-> IF what \in {"fire", "setup"} THEN components ELSE {},
     nlisteners |-> IF what = "fire" THEN Len(listeners) ELSE 0]

\* no activation routine has been started
NoSetup ==
    [pc |-> "idle", form |-> None, component |-> None, call |-> 0,
     result |-> FALSE]

Init ==
    /\ components \in SUBSET Components
    /\ listeners = <<>>
    /\ loop = <<>>
    /\ calls = <<>>
    /\ history = <<>>
    /\ threads = <<>>
    /\ setup = NoSetup

\* ------------------------------------------------------------ registration
\* mutant: the registration takes the place of the registry
async_listen_replace(service, callback) ==
    /\ Len(listeners) < MaxListeners
    /\ listeners' = <<[kind |-> "service", services |-> service,
                       service |-> None, callback |-> callback]>>

\* async_listen: normalise the names to a tuple, register the closure
async_listen(service, callback) ==
    /\ Len(listeners) < MaxListeners
    /\ listeners' = Append(listeners,
           [kind |-> "service", services |-> service, service |-> None,
            callback |-> callback])

AsyncListen ==
    /\ UNCHANGED <<threads, setup>>
    /\ UNCHANGED <<components, loop, calls, history>>
    /\ \E callback \in Callbacks :
           \/ \E s \in ListenServices : async_listen(<<s>>, callback)
           \/ \E t \in ServiceCollections : async_listen(t, callback)

\* async_listen_platform: register the closure for "load_platform.<component>"
async_listen_platform(component, callback) ==
    /\ Len(listeners) < MaxListeners
    /\ listeners' = Append(listeners,
           [kind |-> "platform", services |-> <<>>,
            service |-> LoadPlatformService(component),
            callback |-> callback])

AsyncListenPlatform ==
    /\ UNCHANGED <<threads, setup>>
    /\ UNCHANGED <<components, loop, calls, history>>
    /\ \E component \in ListenComponents, callback \in Callbacks :
           async_listen_platform(component, callback)

\* ------------------------------------------------ the blocking registration
\* a thread inside listen / listen_platform: blocked until its future is
\* set, then returned; reg is the registration made for it and returned_at
\* the length of the log when it returned
Thread(op, service, component, callback) ==
    [op |-> op, service |-> service, component |-> component,
     callback |-> callback, pc |-> "blocked", reg |-> 0, returned_at |-> 0]

\* run_callback_threadsafe(hass.loop, ...): the thread hands the
\* registration to the loop as a unit of work
run_callback_threadsafe(th) ==
    /\ Len(threads) < MaxListeners
    /\ threads' = Append(threads, th)
    /\ loop' = Append(loop, Job("register", Len(threads) + 1, 0, 0, NoArgs))
    /\ UNCHANGED <<components, listeners, calls, history>>

\* mutant: the thread registers by itself, without the loop
listen_direct(service, callback) ==
    /\ Len(threads) < MaxListeners
    /\ async_listen(service, callback)
    /\ threads' = Append(threads,
           [Thread("listen", service, None, callback)
            EXCEPT !.pc = "installed", !.reg = Len(listeners) + 1])
    /\ UNCHANGED <<components, loop, calls, history>>

\* listen (blocking entry point), up to the wait for the result
listen(service, callback) ==
    run_callback_threadsafe(Thread("listen", service, None, callback))

Listen ==
    /\ UNCHANGED setup
    /\ \E callback \in Callbacks :
           \/ \E s \in ListenServices : listen(<<s>>, callback)
           \/ \E t \in ServiceCollections : listen(t, callback)

\* listen_platform (blocking entry point), up to the wait for the result
listen_platform(component, callback) ==
    run_callback_threadsafe(Thread("listen_platform", None, component,
                                   callback))

ListenPlatform ==
    /\ UNCHANGED setup
    /\ \E component \in ListenComponents, callback \in Callbacks :
           listen_platform(component, callback)

\* the loop runs the unit of work of run_callback_threadsafe: async_listen
\* or async_listen_platform runs on the loop and the future gets its result
RunRegister ==
    /\ UNCHANGED setup
    /\ loop # <<>>
    /\ Head(loop).type = "register"
    /\ LET t == Head(loop).call IN
        /\ IF threads[t].op = "listen"
           THEN async_listen(threads[t].service, threads[t].callback)
           ELSE async_listen_platform(threads[t].component,
                                      threads[t].callback)
        /\ threads' = [threads EXCEPT ![t].pc = "installed",
                                      ![t].reg = Len(listeners) + 1]
    /\ loop' = Tail(loop)
    /\ UNCHANGED <<components, calls, history>>

\* mutant: the future is not waited for
result_unset(t) == threads[t].pc \in {"blocked", "installed"}

\* future.result(): the thread goes on once the future has its result
result(t) == threads[t].pc = "installed"

\* listen / listen_platform return to the thread
ListenReturn ==
    /\ UNCHANGED setup
    /\ \E t \in DOMAIN threads :
           /\ result(t)
           /\ threads' = [threads EXCEPT ![t].pc = "returned",
                                         ![t].returned_at = Len(history)]
    /\ UNCHANGED <<components, listeners, loop, calls, history>>

\* ------------------------------------------------------------------ the bus
\* hass.bus.async_fire(EVENT_PLATFORM_DISCOVERED, data), reached from call c
\* with q the work already scheduled: the event is
\* logged and one unit of work per listener registered now is scheduled.
async_fire(q, data, c) ==
    /\ history' = Append(history,
           Entry("fire", c, 0, 0, data, NoArgs))
    /\ loop' = q \o [i \in 1..Len(listeners) |->
                        Job("listener", c, i, Len(history) + 1, NoArgs)]

\* The operators below run a coroutine of call c; cs is the table of calls
\* holding it and q the work already scheduled on the loop.

\* the coroutine of call c ends with outcome o; an awaiting caller observes o
Finish(c, cs, o) ==
    calls' = [cs EXCEPT ![c].pc = "done", ![c].outcome = o,
                        ![c].caller = IF cs[c].blocking THEN @ ELSE o]

\* raise error
Raise(c, cs, q, error) ==
    /\ Finish(c, cs, error)
    /\ loop' = q
    /\ UNCHANGED <<components, listeners, history>>

\* await setup.async_setup_component(hass, component, hass_config): the
\* activation call is made and the coroutine is suspended on it
AwaitSetup(c, cs, q) ==
    /\ calls' = [cs EXCEPT ![c].pc = "awaiting"]
    /\ history' = Append(history,
           Entry("setup", c, 0, 0, NoData, NoArgs))
    /\ loop' = q
    /\ UNCHANGED <<components, listeners>>

\* ------------------------------------------------------------------ discover
\* mutant: "if discovered:" in place of "if discovered is not None:"
DiscoverData_truthy(rc) ==
    IF rc.discovered # None /\ rc.discovered # "{}"
    THEN (ATTR_SERVICE :> rc.service @@ ATTR_DISCOVERED :> rc.discovered)
    ELSE (ATTR_SERVICE :> rc.service)

\* async_discover, lines 88-91: the event data
DiscoverData(rc) ==
    IF rc.discovered # None
    THEN (ATTR_SERVICE :> rc.service @@ ATTR_DISCOVERED :> rc.discovered)
    ELSE (ATTR_SERVICE :> rc.service)

\* mutant: the event is built from the arguments of the first call made
async_discover_fire_first(c, cs, q) ==
    /\ async_fire(q, DiscoverData(cs[1]), c)
    /\ Finish(c, cs, "returned")
    /\ UNCHANGED <<components, listeners>>

\* async_discover after the activation, whatever it returned: lines 88-93
async_discover_fire(c, cs, q) ==
    /\ async_fire(q, DiscoverData(cs[c]), c)
    /\ Finish(c, cs, "returned")
    /\ UNCHANGED <<components, listeners>>

\* mutant: the activation is started but not awaited
async_discover_no_await(c, cs, q) ==
    IF cs[c].component \in DEPENDENCY_BLACKLIST
    THEN Raise(c, cs, q, "HomeAssistantError")
    ELSE IF cs[c].component # None /\ cs[c].component \notin components
         THEN /\ history' = history \o
                    << Entry("setup", c, 0, 0, NoData, NoArgs),
                       Entry("fire", c, 0, 0, DiscoverData(cs[c]), NoArgs) >>
              /\ loop' = q \o [i \in 1..Len(listeners) |->
                     Job("listener", c, i, Len(history) + 2, NoArgs)]
              /\ Finish(c, cs, "returned")
              /\ UNCHANGED <<components, listeners>>
         ELSE async_discover_fire(c, cs, q)

\* mutant: the deny-list is consulted after the activation
async_discover_late_guard(c, cs, q) ==
    IF cs[c].component # None /\ cs[c].component \notin components
    THEN AwaitSetup(c, cs, q)
    ELSE IF cs[c].component \in DEPENDENCY_BLACKLIST
         THEN Raise(c, cs, q, "HomeAssistantError")
         ELSE async_discover_fire(c, cs, q)

\* async_discover from its first line to its first suspension or its end
async_discover(c, cs, q) ==
    IF cs[c].component \in DEPENDENCY_BLACKLIST
    THEN Raise(c, cs, q, "HomeAssistantError")
    ELSE IF cs[c].component # None /\ cs[c].component \notin components
         THEN AwaitSetup(c, cs, q)
         ELSE async_discover_fire(c, cs, q)

\* -------------------------------------------------------------- load_platform
\* async_load_platform, lines 196-202: the event data
LoadPlatformData(rc) ==
    IF rc.discovered # None
    THEN (ATTR_SERVICE :> LoadPlatformService(rc.component)
            @@ ATTR_PLATFORM :> rc.platform
            @@ ATTR_DISCOVERED :> rc.discovered)
    ELSE (ATTR_SERVICE :> LoadPlatformService(rc.component)
            @@ ATTR_PLATFORM :> rc.platform)

\* mutant: the result of the activation is not looked at
async_load_platform_fire_unchecked(c, cs, q, setup_success) ==
    /\ async_fire(q, LoadPlatformData(cs[c]), c)
    /\ Finish(c, cs, "returned")
    /\ UNCHANGED <<components, listeners>>

\* async_load_platform once setup_success is known: lines 192-204
async_load_platform_fire(c, cs, q, setup_success) ==
    IF ~setup_success
    THEN /\ Finish(c, cs, "returned")
         /\ loop' = q
         /\ UNCHANGED <<components, listeners, history>>
    ELSE /\ async_fire(q, LoadPlatformData(cs[c]), c)
         /\ Finish(c, cs, "returned")
         /\ UNCHANGED <<components, listeners>>

\* mutant: the config is not asserted
async_load_platform_no_assert(c, cs, q) ==
    IF cs[c].component \in DEPENDENCY_BLACKLIST
    THEN Raise(c, cs, q, "HomeAssistantError")
    ELSE IF cs[c].component \notin components
         THEN AwaitSetup(c, cs, q)
         ELSE async_load_platform_fire(c, cs, q, TRUE)

\* mutant: the activation is called without looking at the active components
async_load_platform_always_setup(c, cs, q) ==
    IF cs[c].hass_config = {}
    THEN Raise(c, cs, q, "AssertionError")
    ELSE IF cs[c].component \in DEPENDENCY_BLACKLIST
         THEN Raise(c, cs, q, "HomeAssistantError")
         ELSE AwaitSetup(c, cs, q)

\* async_load_platform from its first line to its first suspension or its end
\* mutant: an inactive component makes the coroutine return
async_load_platform_only_if_active(c, cs, q) ==
    IF cs[c].hass_config = {}
    THEN Raise(c, cs, q, "AssertionError")
    ELSE IF cs[c].component \in DEPENDENCY_BLACKLIST
         THEN Raise(c, cs, q, "HomeAssistantError")
         ELSE async_load_platform_fire(c, cs, q,
                                       cs[c].component \in components)

\* mutant: the activation is not awaited
async_load_platform_no_await(c, cs, q) ==
    IF cs[c].hass_config = {}
    THEN Raise(c, cs, q, "AssertionError")
    ELSE IF cs[c].component \in DEPENDENCY_BLACKLIST
         THEN Raise(c, cs, q, "HomeAssistantError")
         ELSE async_load_platform_fire(c, cs, q, TRUE)

async_load_platform(c, cs, q) ==
    IF cs[c].hass_config = {}
    THEN Raise(c, cs, q, "AssertionError")
    ELSE IF cs[c].component \in DEPENDENCY_BLACKLIST
         THEN Raise(c, cs, q, "HomeAssistantError")
         ELSE IF cs[c].component \notin components
              THEN AwaitSetup(c, cs, q)
              ELSE async_load_platform_fire(c, cs, q, TRUE)

\* ------------------------------------------------------------- entry points
Call(kind, blocking, service, component, platform, discovered, hass_config) ==
    [kind |-> kind, blocking |-> blocking, service |-> service,
     component |-> component, platform |-> platform,
     discovered |-> discovered, hass_config |-> hass_config,
     pc |-> "scheduled", outcome |-> "running",
     caller |-> IF blocking THEN "returned" ELSE "pending",
     setup_result |-> TRUE]

\* hass.add_job(coroutine): the coroutine is handed to the loop and the
\* caller gets None back at once
add_job(rc) ==
    /\ calls' = Append(calls, rc)
    /\ loop' = Append(loop, Job("task", Len(calls) + 1, 0, 0, NoArgs))
    /\ UNCHANGED <<components, listeners, history>>

\* discover (blocking entry point)
Discover ==
    /\ UNCHANGED <<threads, setup>>
    /\ \E service \in Services, discovered \in Payloads,
          component \in Components \cup {None} :
           /\ Len(calls) < MaxCalls
           /\ add_job(Call("discover", TRUE, service, component, None,
                           discovered, RealConfig))

\* await async_discover(...): the coroutine runs in its caller's unit of work
AsyncDiscover ==
    /\ UNCHANGED <<threads, setup>>
    /\ \E service \in Services, discovered \in Payloads,
          component \in Components \cup {None} :
           /\ Len(calls) < MaxCalls
           /\ async_discover(Len(calls) + 1,
                  Append(calls, Call("discover", FALSE, service, component, None,
                                     discovered, RealConfig)),
                  loop)

\* load_platform (blocking entry point)
LoadPlatform ==
    /\ UNCHANGED <<threads, setup>>
    /\ \E component \in Components, platform \in Platforms,
          discovered \in Payloads, hass_config \in Configs :
           /\ Len(calls) < MaxCalls
           /\ add_job(Call("load_platform", TRUE, None, component, platform,
                           discovered, hass_config))

\* await async_load_platform(...)
AsyncLoadPlatform ==
    /\ UNCHANGED <<threads, setup>>
    /\ \E component \in Components, platform \in Platforms,
          discovered \in Payloads, hass_config \in Configs :
           /\ Len(calls) < MaxCalls
           /\ async_load_platform(Len(calls) + 1,
                  Append(calls, Call("load_platform", FALSE, None, component,
                                     platform, discovered, hass_config)),
                  loop)

\* several discover calls made before the loop has run the first of them
ConcurrentDiscover ==
    /\ UNCHANGED <<threads, setup>>
    /\ \E service \in Services, discovered \in ConcurrentPayloads,
          component \in Components \cup {None} :
           /\ Len(calls) < MaxConcurrent
           /\ add_job(Call("discover", TRUE, service, component, None,
                           discovered, RealConfig))

\* several load_platform calls made before the loop has run the first of them
ConcurrentLoadPlatform ==
    /\ UNCHANGED <<threads, setup>>
    /\ \E component \in Components, platform \in ConcurrentPlatforms,
          discovered \in ConcurrentPayloads :
           /\ Len(calls) < MaxConcurrent
           /\ add_job(Call("load_platform", TRUE, None, component, platform,
                           discovered, RealConfig))

\* ------------------------------------------------------------ the event loop
\* the loop runs the coroutine that add_job handed to it
RunTask ==
    /\ UNCHANGED <<threads, setup>>
    /\ loop # <<>>
    /\ Head(loop).type = "task"
    /\ LET c == Head(loop).call IN
        IF calls[c].kind = "discover"
        THEN async_discover(c, calls, Tail(loop))
        ELSE async_load_platform(c, calls, Tail(loop))

\* the calls suspended on the activation of component, in call order
RECURSIVE Ascending(_)
Ascending(S) ==
    IF S = {} THEN <<>>
    ELSE LET m == CHOOSE x \in S : \A y \in S : x <= y
         IN <<m>> \o Ascending(S \ {m})

Waiters(component) ==
    { c \in DOMAIN calls :
        calls[c].pc = "awaiting" /\ calls[c].component = component }

\* setup.async_setup_component finishes for component with result ok: on
\* success the component is active; every coroutine awaiting it is woken
\* with the result (one activation in progress per component, shared by
\* all that await it)
SetupComponent ==
    /\ UNCHANGED <<threads, setup>>
    /\ \E component \in Components, ok \in BOOLEAN :
           LET w == Ascending(Waiters(component)) IN
           /\ w # <<>>
           /\ components' = IF ok THEN components \cup {component} ELSE components
           /\ calls' = [c \in DOMAIN calls |->
                  IF c \in Waiters(component)
                  THEN [calls[c] EXCEPT !.pc = "woken", !.setup_result = ok]
                  ELSE calls[c]]
           /\ history' = history \o [i \in DOMAIN w |->
                  Entry("setup_done", w[i], 0, 0, NoData, NoArgs)]
           /\ loop' = loop \o [i \in DOMAIN w |->
                  Job("resume", w[i], 0, 0, NoArgs)]
           /\ UNCHANGED <<listeners>>

\* the loop resumes a coroutine after its await
RunResume ==
    /\ UNCHANGED <<threads, setup>>
    /\ loop # <<>>
    /\ Head(loop).type = "resume"
    /\ LET c == Head(loop).call IN
        IF calls[c].kind = "discover"
        THEN async_discover_fire(c, calls, Tail(loop))
        ELSE async_load_platform_fire(c, calls, Tail(loop),
                                      calls[c].setup_result)

\* ------------------------------------------ a component loading its platform
\* The activation subsystem runs the activation routine of a component that
\* is not active; the routine loads a platform of its own component.

\* the routine uses the fire-and-forget form: load_platform hands the
\* coroutine to the loop and the routine goes on
SetupRoutineTask ==
    /\ UNCHANGED threads
    /\ setup.pc = "idle"
    /\ \E component \in Components, platform \in Platforms,
          discovered \in Payloads, hass_config \in Configs :
           /\ component \notin components
           /\ add_job(Call("load_platform", TRUE, None, component, platform,
                           discovered, hass_config))
           /\ setup' = [pc |-> "running", form |-> "task",
                        component |-> component, call |-> Len(calls) + 1,
                        result |-> FALSE]

\* the routine uses the awaiting form: await async_load_platform(...) runs
\* in the routine's unit of work and the routine is suspended on it
SetupRoutineAwait ==
    /\ UNCHANGED threads
    /\ setup.pc = "idle"
    /\ \E component \in Components, platform \in Platforms,
          discovered \in Payloads, hass_config \in Configs :
           /\ component \notin components
           /\ async_load_platform(Len(calls) + 1,
                  Append(calls, Call("load_platform", FALSE, None, component,
                                     platform, discovered, hass_config)),
                  loop)
           /\ setup' = [pc |-> "suspended", form |-> "await",
                        component |-> component, call |-> Len(calls) + 1,
                        result |-> FALSE]

\* the coroutines in w are woken with the result ok of the activation
Wake(w, ok) ==
    /\ calls' = [c \in DOMAIN calls |->
           IF \E i \in DOMAIN w : w[i] = c
           THEN [calls[c] EXCEPT !.pc = "woken", !.setup_result = ok]
           ELSE calls[c]]
    /\ history' = history \o [i \in DOMAIN w |->
           Entry("setup_done", w[i], 0, 0, NoData, NoArgs)]
    /\ loop' = loop \o [i \in DOMAIN w |->
           Job("resume", w[i], 0, 0, NoArgs)]

\* the routine returns, once the call it awaits (if any) is done, and the
\* activation completes: a routine whose awaited call raised fails, on
\* success the component is active, and the coroutines awaiting the
\* activation are woken with its result
SetupRoutineReturn ==
    /\ UNCHANGED threads
    /\ \/ setup.pc = "running"
       \/ setup.pc = "suspended" /\ calls[setup.call].pc = "done"
    /\ \E ok \in BOOLEAN :
           /\ calls[setup.call].caller \in {"AssertionError",
                                            "HomeAssistantError"} => ~ok
           /\ components' = IF ok THEN components \cup {setup.component}
                            ELSE components
           /\ setup' = [setup EXCEPT !.pc = "done", !.result = ok]
           /\ Wake(Ascending(Waiters(setup.component)), ok)
    /\ UNCHANGED listeners

\* async_setup_component called for a component whose activation has
\* completed without making it active returns the result of that activation
SetupRejoin ==
    /\ UNCHANGED threads
    /\ setup.pc = "done"
    /\ Waiters(setup.component) # {}
    /\ Wake(Ascending(Waiters(setup.component)), setup.result)
    /\ UNCHANGED <<components, listeners, setup>>

\* ------------------------------------------------------------- the listeners
Invoke(job, args) ==
    history' = Append(history,
        Entry("invoke", job.call, job.reg, job.ev, NoData, args))

\* mutant: any event that has a service field matches
discovery_event_listener_any(job, reg, data) ==
    IF ATTR_SERVICE \in DOMAIN data
    THEN /\ loop' = Append(Tail(loop),
                Job("callback", job.call, job.reg, job.ev,
                    <<data[ATTR_SERVICE], Get(data, ATTR_DISCOVERED)>>))
         /\ UNCHANGED history
    ELSE /\ loop' = Tail(loop)
         /\ UNCHANGED history

\* mutant: the callback is called in the listener instead of being scheduled
discovery_event_listener_inline(job, reg, data) ==
    IF ATTR_SERVICE \in DOMAIN data /\ InTuple(data[ATTR_SERVICE], reg.services)
    THEN /\ Invoke(job, <<data[ATTR_SERVICE], Get(data, ATTR_DISCOVERED)>>)
         /\ loop' = Tail(loop)
    ELSE /\ loop' = Tail(loop)
         /\ UNCHANGED history

\* discovery_event_listener(event), the closure of async_listen
discovery_event_listener(job, reg, data) ==
    IF ATTR_SERVICE \in DOMAIN data /\ InTuple(data[ATTR_SERVICE], reg.services)
    THEN \* hass.async_add_job(callback, service, discovered)
         /\ loop' = Append(Tail(loop),
                Job("callback", job.call, job.reg, job.ev,
                    <<data[ATTR_SERVICE], Get(data, ATTR_DISCOVERED)>>))
         /\ UNCHANGED history
    ELSE /\ loop' = Tail(loop)
         /\ UNCHANGED history

\* hass.async_run_job(callback, platform, discovered), line 129: a function
\* marked @callback is run at once, in the listener's unit of work, and any
\* other callback is scheduled as with hass.async_add_job
async_run_job(job, reg, args) ==
    IF is_callback(reg.callback)
    THEN /\ Invoke(job, args)
         /\ loop' = Tail(loop)
    ELSE /\ loop' = Append(Tail(loop),
                Job("callback", job.call, job.reg, job.ev, args))
         /\ UNCHANGED history

\* mutant: the callback is given the service name in place of the platform
discovery_platform_listener_service_arg(job, reg, data) ==
    IF Get(data, ATTR_SERVICE) # reg.service
    THEN /\ loop' = Tail(loop)
         /\ UNCHANGED history
    ELSE IF ~Truthy(Get(data, ATTR_PLATFORM))
         THEN /\ loop' = Tail(loop)
              /\ UNCHANGED history
         ELSE async_run_job(job, reg,
                  <<Get(data, ATTR_SERVICE), Get(data, ATTR_DISCOVERED)>>)

\* mutant: the service field is not compared
discovery_platform_listener_any_service(job, reg, data) ==
    IF ~Truthy(Get(data, ATTR_PLATFORM))
    THEN /\ loop' = Tail(loop)
         /\ UNCHANGED history
    ELSE async_run_job(job, reg,
             <<Get(data, ATTR_PLATFORM), Get(data, ATTR_DISCOVERED)>>)

\* mutant: "platform is None" in place of "not platform"
discovery_platform_listener_none_only(job, reg, data) ==
    IF Get(data, ATTR_SERVICE) # reg.service
    THEN /\ loop' = Tail(loop)
         /\ UNCHANGED history
    ELSE IF Get(data, ATTR_PLATFORM) = None
         THEN /\ loop' = Tail(loop)
              /\ UNCHANGED history
         ELSE async_run_job(job, reg,
                  <<Get(data, ATTR_PLATFORM), Get(data, ATTR_DISCOVERED)>>)

\* mutant: the platform field is not looked at
discovery_platform_listener_no_platform_check(job, reg, data) ==
    IF Get(data, ATTR_SERVICE) # reg.service
    THEN /\ loop' = Tail(loop)
         /\ UNCHANGED history
    ELSE async_run_job(job, reg,
             <<Get(data, ATTR_PLATFORM), Get(data, ATTR_DISCOVERED)>>)

\* discovery_platform_listener(event), the closure of async_listen_platform
discovery_platform_listener(job, reg, data) ==
    IF Get(data, ATTR_SERVICE) # reg.service
    THEN /\ loop' = Tail(loop)
         /\ UNCHANGED history
    ELSE LET platform == Get(data, ATTR_PLATFORM) IN
         IF ~Truthy(platform)
         THEN /\ loop' = Tail(loop)
              /\ UNCHANGED history
         ELSE async_run_job(job, reg,
                  <<platform, Get(data, ATTR_DISCOVERED)>>)

\* the loop runs the unit of work the bus scheduled for one listener
RunListener ==
    /\ UNCHANGED <<threads, setup>>
    /\ loop # <<>>
    /\ Head(loop).type = "listener"
    /\ LET job == Head(loop)
           reg == listeners[job.reg]
           data == history[job.ev].data
       IN IF reg.kind = "service"
          THEN discovery_event_listener(job, reg, data)
          ELSE discovery_platform_listener(job, reg, data)
    /\ UNCHANGED <<components, listeners, calls>>

\* the loop runs a scheduled consumer callback
RunCallback ==
    /\ UNCHANGED <<threads, setup>>
    /\ loop # <<>>
    /\ Head(loop).type = "callback"
    /\ Invoke(Head(loop), Head(loop).args)
    /\ loop' = Tail(loop)
    /\ UNCHANGED <<components, listeners, calls>>

\* another producer fires an event on the shared topic directly:
\* hass.bus.async_fire(EVENT_PLATFORM_DISCOVERED, data)
RawFire ==
    /\ UNCHANGED <<threads, setup>>
    /\ \E data \in RawEvents :
           /\ Len(calls) < MaxCalls
           /\ calls' = Append(calls,
                  [Call("fire", FALSE, Get(data, ATTR_SERVICE), None,
                        Get(data, ATTR_PLATFORM), Get(data, ATTR_DISCOVERED),
                        RealConfig)
                   EXCEPT !.pc = "done", !.outcome = "returned",
                          !.caller = "returned"])
           /\ async_fire(loop, data, Len(calls) + 1)
           /\ UNCHANGED <<components, listeners>>

Next ==
    \/ AsyncListen
    \/ AsyncListenPlatform
    \/ Discover
    \/ AsyncDiscover
    \/ LoadPlatform
    \/ AsyncLoadPlatform
    \/ RunTask
    \/ SetupComponent
    \/ RunResume
    \/ RunListener
    \/ RunCallback
    \/ RawFire

Spec == Init /\ [][Next]_vars

\* discover and load_platform calls running as separate tasks on the loop
NextConcurrent ==
    \/ ConcurrentDiscover
    \/ ConcurrentLoadPlatform
    \/ RunTask
    \/ SetupComponent
    \/ RunResume

\* the blocking entry points called from external threads
NextThreads ==
    \/ Listen
    \/ ListenPlatform
    \/ RunRegister
    \/ ListenReturn
    \/ Discover
    \/ LoadPlatform
    \/ RunTask
    \/ SetupComponent
    \/ RunResume
    \/ RunListener
    \/ RunCallback

SpecThreads == Init /\ [][NextThreads]_vars

\* a component whose activation routine loads its own platform
NextSetup ==
    \/ SetupRoutineTask
    \/ SetupRoutineAwait
    \/ SetupRoutineReturn
    \/ SetupRejoin
    \/ RunTask
    \/ RunResume
    \/ AsyncListenPlatform
    \/ RunListener
    \/ RunCallback

\* the loop runs every unit of work scheduled on it and the activation
\* subsystem lets a routine that can go on go on
FairSetup ==
    /\ WF_vars(SetupRoutineReturn)
    /\ WF_vars(SetupRejoin)
    /\ WF_vars(RunTask)
    /\ WF_vars(RunResume)
    /\ WF_vars(RunListener)
    /\ WF_vars(RunCallback)

SpecSetup == Init /\ [][NextSetup]_vars /\ FairSetup

SpecConcurrent == Init /\ [][NextConcurrent]_vars

\* --------------------------------------------------- reading the log
\* the log positions of the events call c broadcast
Fires(c) == { i \in DOMAIN history :
                history[i].what = "fire" /\ history[i].call = c }

\* call c made an activation call / its activation call returned
SetupCalls(c) == { i \in DOMAIN history :
                     history[i].what = "setup" /\ history[i].call = c }
SetupReturns(c) == { i \in DOMAIN history :
                       history[i].what = "setup_done" /\ history[i].call = c }

\* the invocations of the callback of registration r for the event at f
Invocations(r, f) == { i \in DOMAIN history :
                         /\ history[i].what = "invoke"
                         /\ history[i].reg = r
                         /\ history[i].ev = f }

\* the units of work still scheduled for the event at f
Pending(f) == { i \in DOMAIN loop :
                  loop[i].type \in {"listener", "callback"} /\ loop[i].ev = f }

Producers(kinds) == { c \in DOMAIN calls : calls[c].kind \in kinds }

\* -------------------------------------------------------------------- C1
\* C1: an event with service "load_platform.C" built by load_platform /
\* async_load_platform is broadcast only at a moment when C is an active
\* component, and a call whose awaited activation returned false broadcasts
\* no event.
C1_PlatformEventOnlyWhenActive ==
    \A c \in Producers({"load_platform"}) :
        /\ \A f \in Fires(c) :
              /\ history[f].data[ATTR_SERVICE]
                     = LoadPlatformService(calls[c].component)
              /\ calls[c].component \in history[f].active
        /\ (SetupReturns(c) # {} /\ ~calls[c].setup_result) => Fires(c) = {}

\* a load_platform call awaited an activation that succeeded and broadcast
C1_Witness ==
    \E c \in Producers({"load_platform"}) :
        /\ SetupReturns(c) # {}
        /\ calls[c].setup_result
        /\ Fires(c) # {}

\* a load_platform call awaited an activation that failed and has ended
C1_WitnessFailed ==
    \E c \in Producers({"load_platform"}) :
        /\ SetupReturns(c) # {}
        /\ ~calls[c].setup_result
        /\ calls[c].pc = "done"

\* -------------------------------------------------------------------- C2
\* C2: when discover / async_discover names a component that is not None,
\* not deny-listed and not yet active, and the activation returns false,
\* the call broadcasts no event and no listener is invoked.
C2_DiscoverSuppressedOnFailure ==
    \A c \in Producers({"discover"}) :
        ( /\ calls[c].component # None
          /\ calls[c].component \notin DEPENDENCY_BLACKLIST
          /\ SetupReturns(c) # {}
          /\ ~calls[c].setup_result )
        => /\ Fires(c) = {}
           /\ \A i \in DOMAIN history :
                 history[i].what = "invoke" => history[i].call # c

\* -------------------------------------------------------------------- C3
\* C3: once discover(S, P, None, cfg) with P not None has ended and the loop
\* has drained, every service listener registered before the broadcast (so
\* every one registered before the call) whose names contain S has been
\* invoked exactly once, with (S, P), and no service listener whose names do
\* not contain S has been invoked.
C3_Case(c) ==
    /\ calls[c].kind = "discover"
    /\ calls[c].component = None
    /\ calls[c].discovered # None
    /\ calls[c].pc = "done"
    /\ loop = <<>>

C3_EveryListenerOnce ==
    \A c \in DOMAIN calls :
        C3_Case(c) =>
            /\ Cardinality(Fires(c)) = 1
            /\ \A f \in Fires(c), r \in DOMAIN listeners :
                  listeners[r].kind = "service" =>
                      IF InTuple(calls[c].service, listeners[r].services)
                         /\ r <= history[f].nlisteners
                      THEN /\ Cardinality(Invocations(r, f)) = 1
                           /\ \A i \in Invocations(r, f) :
                                 history[i].args
                                     = <<calls[c].service, calls[c].discovered>>
                      ELSE Invocations(r, f) = {}

\* two service listeners registered before the call, one for S and one not,
\* and the first has been invoked
C3_Witness ==
    \E c \in DOMAIN calls :
        /\ C3_Case(c)
        /\ \E f \in Fires(c), r1, r2 \in DOMAIN listeners :
              /\ history[f].nlisteners = 2
              /\ listeners[r1].kind = "service"
              /\ listeners[r2].kind = "service"
              /\ InTuple(calls[c].service, listeners[r1].services)
              /\ ~InTuple(calls[c].service, listeners[r2].services)
              /\ Invocations(r1, f) # {}

\* -------------------------------------------------------------------- C4
\* C4: for a discover or load_platform call that makes an activation call,
\* the activation returns before the event is broadcast (no broadcast while
\* the call is suspended on its activation), and every unit of listener work
\* and every callback invocation for the event comes after its broadcast.
C4_Ordering ==
    \A c \in Producers({"discover", "load_platform"}) :
        SetupCalls(c) # {} =>
            /\ \A f \in Fires(c) :
                  /\ \E a \in SetupReturns(c) : a < f
                  /\ \A a \in SetupCalls(c) : a < f
            /\ calls[c].pc = "awaiting" => Fires(c) = {}
            /\ \A i \in DOMAIN history :
                  (history[i].what = "invoke" /\ history[i].call = c)
                  => history[i].ev \in Fires(c) /\ history[i].ev < i
            /\ \A j \in DOMAIN loop :
                  (loop[j].type \in {"listener", "callback"} /\ loop[j].call = c)
                  => loop[j].ev \in Fires(c)

\* a call awaited its activation, broadcast, and a callback has run
C4_Witness ==
    \E c \in Producers({"discover", "load_platform"}) :
        /\ SetupCalls(c) # {}
        /\ \E i \in DOMAIN history :
              history[i].what = "invoke" /\ history[i].call = c

\* -------------------------------------------------------------------- C5
\* C5: async_discover, or async_load_platform with a non-empty config,
\* naming a deny-listed component makes no activation call and broadcasts no
\* event, so no listener is invoked, and it ends with the
\* forbidden-component error, whether or not the component is active.
C5_Case(c) ==
    /\ calls[c].kind \in {"discover", "load_platform"}
    /\ calls[c].component \in DEPENDENCY_BLACKLIST
    /\ calls[c].kind = "load_platform" => calls[c].hass_config # {}

C5_DenyListed ==
    \A c \in DOMAIN calls :
        C5_Case(c) =>
            /\ SetupCalls(c) = {}
            /\ Fires(c) = {}
            /\ \A i \in DOMAIN history : history[i].call # c
            /\ \A j \in DOMAIN loop :
                  loop[j].call = c => loop[j].type = "task"
            /\ calls[c].pc \in {"scheduled", "done"}
            /\ calls[c].pc = "done" => calls[c].outcome = "HomeAssistantError"

\* a call naming an inactive deny-listed component has ended, with a
\* listener registered
C5_Witness ==
    \E c \in DOMAIN calls :
        /\ C5_Case(c)
        /\ calls[c].pc = "done"
        /\ calls[c].component \notin components
        /\ listeners # <<>>

\* the same with the deny-listed component active
C5_WitnessActive ==
    \E c \in DOMAIN calls :
        /\ C5_Case(c)
        /\ calls[c].pc = "done"
        /\ calls[c].component \in components

\* -------------------------------------------------------------------- C6
\* C6: for each of discover, async_discover, load_platform and
\* async_load_platform, a deny-listed component makes the forbidden-component
\* error the outcome the calling context observes: the caller never gets a
\* normal return.
C6_ForbiddenSurfacedToCaller ==
    \A c \in DOMAIN calls :
        C5_Case(c) =>
            /\ calls[c].caller \in {"pending", "HomeAssistantError"}
            /\ calls[c].pc = "done" => calls[c].caller = "HomeAssistantError"

\* -------------------------------------------------------------------- C7
\* C7: async_load_platform with an empty config ends with the assertion
\* error, makes no activation call and broadcasts no event, whatever the
\* component (inactive, active or deny-listed), platform and payload, and
\* the step that runs it leaves the active components and the listener
\* registry as they were.
C7_Case(c, cs) ==
    /\ c \in DOMAIN cs
    /\ cs[c].kind = "load_platform"
    /\ cs[c].hass_config = {}

C7_NothingDone ==
    \A c \in DOMAIN calls :
        C7_Case(c, calls) =>
            /\ \A i \in DOMAIN history : history[i].call # c
            /\ \A j \in DOMAIN loop :
                  loop[j].call = c => loop[j].type = "task"
            /\ calls[c].pc \in {"scheduled", "done"}
            /\ calls[c].pc = "done" => calls[c].outcome = "AssertionError"

C7_Frame ==
    \A c \in DOMAIN calls' :
        ( /\ C7_Case(c, calls')
          /\ calls'[c].pc = "done"
          /\ (c \in DOMAIN calls => calls[c].pc # "done") )
        => /\ components' = components
           /\ listeners' = listeners
           /\ history' = history

C7_EmptyConfigFailsFast == []C7_NothingDone /\ [][C7_Frame]_vars

\* the call named an inactive component that is not deny-listed, with a
\* listener registered, and has ended
C7_Witness ==
    \E c \in DOMAIN calls :
        /\ C7_Case(c, calls)
        /\ calls[c].pc = "done"
        /\ calls[c].component \notin components \cup DEPENDENCY_BLACKLIST
        /\ listeners # <<>>

\* the same with a deny-listed component: the assertion comes first
C7_WitnessDenyListed ==
    \E c \in DOMAIN calls :
        /\ C7_Case(c, calls)
        /\ calls[c].pc = "done"
        /\ calls[c].component \in DEPENDENCY_BLACKLIST

\* -------------------------------------------------------------------- C8
\* the invocations of the callback of registration r for the events of call c
InvocationsOf(r, c) == { i \in DOMAIN history :
                           /\ history[i].what = "invoke"
                           /\ history[i].reg = r
                           /\ history[i].call = c }

\* load_platform(C, P, D, cfg) with cfg and P not empty has ended, C was
\* active or its activation succeeded, and the loop has drained
C8_Case(c) ==
    /\ calls[c].kind = "load_platform"
    /\ calls[c].hass_config # {}
    /\ Truthy(calls[c].platform)
    /\ calls[c].pc = "done"
    /\ loop = <<>>
    /\ \/ SetupCalls(c) = {} /\ calls[c].component \in components
       \/ SetupReturns(c) # {} /\ calls[c].setup_result

\* registration r is a listen_platform(C, cb) made before call c broadcast
C8_Listening(r, c) ==
    /\ listeners[r].kind = "platform"
    /\ listeners[r].service = LoadPlatformService(calls[c].component)
    /\ \A f \in Fires(c) : r <= history[f].nlisteners

C8_InvokedOnce(r, c) ==
    /\ Cardinality(InvocationsOf(r, c)) = 1
    /\ \A i \in InvocationsOf(r, c) :
          history[i].args = <<calls[c].platform, calls[c].discovered>>

\* C8 as stated: whenever C is active or activates successfully, cb is
\* invoked exactly once with (P, D)
C8_Original ==
    \A c \in DOMAIN calls, r \in DOMAIN listeners :
        (C8_Case(c) /\ C8_Listening(r, c)) => C8_InvokedOnce(r, c)

\* C8 (amended): for a component C that is not deny-listed, a platform
\* name P that is not empty and a payload D, when listen_platform(C, cb) is
\* registered before the event is broadcast and load_platform(C, P, D, cfg)
\* is called with a non-empty cfg and C is active or activates successfully,
\* cb is invoked exactly once, with (P, D).
C8_PlatformListenerInvokedOnce ==
    \A c \in DOMAIN calls, r \in DOMAIN listeners :
        ( /\ C8_Case(c)
          /\ calls[c].component \notin DEPENDENCY_BLACKLIST
          /\ C8_Listening(r, c) )
        => /\ Cardinality(Fires(c)) = 1
           /\ C8_InvokedOnce(r, c)

\* the component was activated by the call and a listener of it was invoked
\* with a payload
C8_Witness ==
    \E c \in DOMAIN calls, r \in DOMAIN listeners :
        /\ C8_Case(c)
        /\ calls[c].component \notin DEPENDENCY_BLACKLIST
        /\ C8_Listening(r, c)
        /\ SetupReturns(c) # {}
        /\ calls[c].discovered # None
        /\ InvocationsOf(r, c) # {}

\* -------------------------------------------------------------------- C9
\* C9: the callback of a listen_platform(C, cb) registration is invoked, or
\* scheduled, only for an event whose service field is "load_platform." + C:
\* not for the platform event of another component, not for an event whose
\* service is the bare name C, not for an event without a service field.
C9_PlatformListenerOwnServiceOnly ==
    /\ \A i \in DOMAIN history :
          ( /\ history[i].what = "invoke"
            /\ listeners[history[i].reg].kind = "platform" )
          => /\ ATTR_SERVICE \in DOMAIN history[history[i].ev].data
             /\ history[history[i].ev].data[ATTR_SERVICE]
                    = listeners[history[i].reg].service
    /\ \A j \in DOMAIN loop :
          ( /\ loop[j].type = "callback"
            /\ listeners[loop[j].reg].kind = "platform" )
          => /\ ATTR_SERVICE \in DOMAIN history[loop[j].ev].data
             /\ history[loop[j].ev].data[ATTR_SERVICE]
                    = listeners[loop[j].reg].service

\* the event at f was handed to the platform listener r and nothing of it
\* is left to run
C9_Delivered(r, f) ==
    /\ history[f].what = "fire"
    /\ listeners[r].kind = "platform"
    /\ r <= history[f].nlisteners
    /\ Pending(f) = {}

\* a well-formed platform event of another component went by a platform
\* listener, which was not invoked
C9_Witness ==
    \E r \in DOMAIN listeners, f \in DOMAIN history :
        /\ C9_Delivered(r, f)
        /\ Truthy(Get(history[f].data, ATTR_PLATFORM))
        /\ Get(history[f].data, ATTR_SERVICE) = LoadPlatformService("hub")
        /\ listeners[r].service = LoadPlatformService("other")
        /\ Invocations(r, f) = {}

\* a service-discovery event whose service is the bare component name
C9_WitnessBareName ==
    \E r \in DOMAIN listeners, f \in DOMAIN history :
        /\ C9_Delivered(r, f)
        /\ Get(history[f].data, ATTR_SERVICE) = "hub"
        /\ listeners[r].service = LoadPlatformService("hub")
        /\ Invocations(r, f) = {}

\* an event without a service field
C9_WitnessNoService ==
    \E r \in DOMAIN listeners, f \in DOMAIN history :
        /\ C9_Delivered(r, f)
        /\ ATTR_SERVICE \notin DOMAIN history[f].data
        /\ Truthy(Get(history[f].data, ATTR_PLATFORM))
        /\ Invocations(r, f) = {}

\* ------------------------------------------------------------------- C10
\* C10: an event with service "load_platform.C" whose platform field is
\* absent or empty causes no invocation, and no scheduling, of a callback
\* registered through listen_platform(C, ...), and ends in no error: its
\* producer returns normally.
C10_Malformed(r, f) ==
    /\ history[f].what = "fire"
    /\ listeners[r].kind = "platform"
    /\ Get(history[f].data, ATTR_SERVICE) = listeners[r].service
    /\ ~Truthy(Get(history[f].data, ATTR_PLATFORM))

C10_MalformedPlatformEventDropped ==
    \A r \in DOMAIN listeners, f \in DOMAIN history :
        C10_Malformed(r, f) =>
            /\ Invocations(r, f) = {}
            /\ \A j \in DOMAIN loop :
                  (loop[j].reg = r /\ loop[j].ev = f)
                  => loop[j].type = "listener"
            /\ calls[history[f].call].outcome = "returned"

\* an event without a platform field went by a listener of its component
C10_Witness ==
    \E r \in DOMAIN listeners, f \in DOMAIN history :
        /\ C10_Malformed(r, f)
        /\ r <= history[f].nlisteners
        /\ Pending(f) = {}
        /\ ATTR_PLATFORM \notin DOMAIN history[f].data

\* an event with an empty platform field, built by load_platform
C10_WitnessEmpty ==
    \E r \in DOMAIN listeners, f \in DOMAIN history :
        /\ C10_Malformed(r, f)
        /\ r <= history[f].nlisteners
        /\ Pending(f) = {}
        /\ Get(history[f].data, ATTR_PLATFORM) = ""
        /\ calls[history[f].call].kind = "load_platform"

\* ------------------------------------------------------------------- C11
\* C11: the event built by discover and by load_platform has the discovered
\* field exactly when the payload passed is not None, and the field then
\* holds that payload: with None the key is absent, with the empty mapping
\* the key is there and holds the empty mapping, so the two events differ.
C11_DiscoveredIffPayload ==
    \A c \in Producers({"discover", "load_platform"}) :
        \A f \in Fires(c) :
            /\ ATTR_DISCOVERED \in DOMAIN history[f].data
                   <=> calls[c].discovered # None
            /\ calls[c].discovered # None
                   => history[f].data[ATTR_DISCOVERED] = calls[c].discovered

\* an event was built from the empty mapping
C11_Witness ==
    \E c \in Producers({"discover", "load_platform"}) :
        \E f \in Fires(c) :
            /\ calls[c].discovered = "{}"
            /\ ATTR_DISCOVERED \in DOMAIN history[f].data

\* an event was built from None
C11_WitnessNone ==
    \E c \in Producers({"discover", "load_platform"}) :
        \E f \in Fires(c) :
            /\ calls[c].discovered = None
            /\ ATTR_DISCOVERED \notin DOMAIN history[f].data

\* ------------------------------------------------------------------- C12
\* C12: a discover or load_platform call that gets past the deny-list check
\* (for load_platform, with the non-empty config that lets it reach the
\* check) makes at most one activation call, makes it only for a component
\* that is not active at that moment, and, when it makes none, its component
\* is None or active and its event is broadcast exactly once.
C12_Case(c) ==
    /\ calls[c].kind \in {"discover", "load_platform"}
    /\ calls[c].component \notin DEPENDENCY_BLACKLIST
    /\ calls[c].kind = "load_platform" => calls[c].hass_config # {}

C12_WitnessInactive ==
    \E c \in DOMAIN calls :
        /\ C12_Case(c)
        /\ calls[c].pc = "done"
        /\ Cardinality(SetupCalls(c)) = 1

\* ------------------------------------------------------------------- C17
\* the log entries the step adds
NewEntries == (DOMAIN history') \ (DOMAIN history)

\* C17 as stated: in both layers a consumer callback is invoked only by a
\* unit of work of its own, never inside the dispatch step of its listener
C17_NeverInline ==
    \A i \in NewEntries :
        history'[i].what = "invoke" =>
            /\ loop # <<>>
            /\ Head(loop).type = "callback"

C17_Scheduled ==
    \A i \in NewEntries :
        /\ history'[i].what = "invoke" =>
              /\ loop # <<>>
              /\ Head(loop).reg = history'[i].reg
              /\ \/ Head(loop).type = "callback"
                 \/ /\ Head(loop).type = "listener"
                    /\ listeners[Head(loop).reg].kind = "platform"
                    /\ is_callback(listeners[Head(loop).reg].callback)
              /\ calls[history'[i].call].pc = "done"
              /\ history'[i].ev \in DOMAIN history
        /\ history'[i].what = "fire" =>
              /\ calls'[history'[i].call].pc = "done"
              /\ \A j \in NewEntries : history'[j].what # "invoke"

C19_DiscoverNeverReachesPlatformListeners ==
    /\ \A c \in Producers({"discover"}) :
          \A f \in Fires(c) :
              /\ ATTR_PLATFORM \notin DOMAIN history[f].data
              /\ \A r \in DOMAIN listeners :
                    listeners[r].kind = "platform" =>
                        /\ Invocations(r, f) = {}
                        /\ \A j \in DOMAIN loop :
                              (loop[j].reg = r /\ loop[j].ev = f)
                              => loop[j].type = "listener"
    /\ \A c \in Producers({"load_platform"}) :
          \A f \in Fires(c), r \in DOMAIN listeners :
              ( /\ listeners[r].kind = "service"
                /\ InTuple(LoadPlatformService(calls[c].component),
                           listeners[r].services)
                /\ r <= history[f].nlisteners
                /\ Pending(f) = {} )
              => /\ Cardinality(Invocations(r, f)) = 1
                 /\ \A i \in Invocations(r, f) :
                       history[i].args
                           = <<LoadPlatformService(calls[c].component),
                               calls[c].discovered>>

\* discover announced on the platform topic of a component whose platform
\* listener was registered, and the event has been dealt with
C19_Witness ==
    \E c \in Producers({"discover"}) :
        \E f \in Fires(c), r \in DOMAIN listeners :
            /\ listeners[r].kind = "platform"
            /\ listeners[r].service = calls[c].service
            /\ r <= history[f].nlisteners
            /\ Pending(f) = {}

\* a listener registered through listen received a load_platform event
C19_WitnessService ==
    \E c \in Producers({"load_platform"}) :
        \E f \in Fires(c), r \in DOMAIN listeners :
            /\ listeners[r].kind = "service"
            /\ Invocations(r, f) # {}

\* ------------------------------------------------------------------- C20
\* the event data matches the predicate of registration r
Matches(r, data) ==
    IF listeners[r].kind = "service"
    THEN InTuple(Get(data, ATTR_SERVICE), listeners[r].services)
    ELSE /\ Get(data, ATTR_SERVICE) = listeners[r].service
         /\ Truthy(Get(data, ATTR_PLATFORM))

\* a step leaves the registry alone or appends one registration to it, and
\* a step that registers fires nothing, calls no activation and schedules
\* nothing
C20_Frame ==
    \/ listeners' = listeners
    \/ /\ Len(listeners') = Len(listeners) + 1
       /\ SubSeq(listeners', 1, Len(listeners)) = listeners
       /\ UNCHANGED <<components, loop, calls, history>>

\* every registration made before an event is, once the event has been dealt
\* with, invoked once if the event matches it and not at all otherwise: two
\* registrations of one callback give two invocations
C20_Delivery ==
    \A r \in DOMAIN listeners, f \in DOMAIN history :
        ( /\ history[f].what = "fire"
          /\ r <= history[f].nlisteners
          /\ Pending(f) = {} )
        => Cardinality(Invocations(r, f))
               = IF Matches(r, history[f].data) THEN 1 ELSE 0

\* C20: listen / async_listen and listen_platform / async_listen_platform
\* each add exactly one registration, broadcast no event and make no
\* activation call; discover and load_platform never add or remove a
\* registration; nothing removes one, so a registration is matched against
\* every later event and a callback registered twice is invoked twice for a
\* matching event.
C20_RegistryFrame == [][C20_Frame]_vars /\ []C20_Delivery

\* the same callback registered twice, and both registrations invoked for
\* one event
C20_Witness ==
    \E f \in DOMAIN history :
        /\ Len(listeners) = 2
        /\ listeners[1] = listeners[2]
        /\ Invocations(1, f) # {}
        /\ Invocations(2, f) # {}

\* ------------------------------------------------------------------- C18
\* the guard and the activation of call c succeeded and c has finished
C18_Succeeded(c) ==
    /\ calls[c].pc = "done"
    /\ calls[c].outcome = "returned"
    /\ calls[c].setup_result

\* the event at f carries the service, platform and payload of call c
C18_OwnFields(c, f) ==
    /\ Get(history[f].data, ATTR_DISCOVERED) = calls[c].discovered
    /\ IF calls[c].kind = "discover"
       THEN /\ history[f].data[ATTR_SERVICE] = calls[c].service
            /\ ATTR_PLATFORM \notin DOMAIN history[f].data
       ELSE /\ history[f].data[ATTR_SERVICE]
                = LoadPlatformService(calls[c].component)
            /\ history[f].data[ATTR_PLATFORM] = calls[c].platform

\* C18: for any interleaving of discover and load_platform calls running as
\* separate tasks, every call whose guard and activation succeed broadcasts
\* exactly one event, no call broadcasts more than one or before it is
\* done, the event carries the call's own service, platform and payload, and
\* it follows the return of the call's own activation await.
C18_OneOwnEventPerCall ==
    \A c \in DOMAIN calls :
        /\ Cardinality(Fires(c)) <= 1
        /\ C18_Succeeded(c) => Cardinality(Fires(c)) = 1
        /\ calls[c].pc # "done" => Fires(c) = {}
        /\ \A f \in Fires(c) :
              /\ C18_OwnFields(c, f)
              /\ \A s \in SetupCalls(c) :
                    \E d \in SetupReturns(c) : s < d /\ d < f

\* two calls with different payloads were suspended on the activation of the
\* same component at the same time, and both have broadcast
C18_Witness ==
    /\ Len(calls) = 2
    /\ calls[1].discovered # calls[2].discovered
    /\ calls[1].component = calls[2].component
    /\ C18_Succeeded(1) /\ C18_Succeeded(2)
    /\ \E s \in SetupCalls(2), d \in SetupReturns(1) : s < d
    /\ \E s \in SetupCalls(1), d \in SetupReturns(2) : s < d
    /\ Fires(1) # {} /\ Fires(2) # {}

\* ------------------------------------------------------------------- C13
\* the registration of thread t is in the registry
C13_Installed(t) ==
    /\ threads[t].reg \in DOMAIN listeners
    /\ listeners[threads[t].reg].callback = threads[t].callback
    /\ IF threads[t].op = "listen"
       THEN /\ listeners[threads[t].reg].kind = "service"
            /\ listeners[threads[t].reg].services = threads[t].service
       ELSE /\ listeners[threads[t].reg].kind = "platform"
            /\ listeners[threads[t].reg].service
                   = LoadPlatformService(threads[t].component)

\* C13: the blocking listen and listen_platform, called from a thread other
\* than the loop's, return only after the registration is in the bus
\* registry; every event broadcast after the return is matched against the
\* listener and, once dealt with, has invoked its callback once if it
\* matches.
C13_ReturnAfterInstalled ==
    \A t \in DOMAIN threads :
        threads[t].pc = "returned" =>
            /\ C13_Installed(t)
            /\ \A f \in DOMAIN history :
                  (history[f].what = "fire" /\ f > threads[t].returned_at)
                  => /\ threads[t].reg <= history[f].nlisteners
                     /\ Pending(f) = {} =>
                           Cardinality(Invocations(threads[t].reg, f))
                               = IF Matches(threads[t].reg, history[f].data)
                                 THEN 1 ELSE 0

\* a producer called after a blocking registration returned has broadcast
\* an event, and the listener's callback was invoked for it
C13_Witness ==
    \E t \in DOMAIN threads, f \in DOMAIN history :
        /\ threads[t].pc = "returned"
        /\ history[f].what = "fire"
        /\ f > threads[t].returned_at
        /\ Invocations(threads[t].reg, f) # {}

\* ------------------------------------------------------------------- C14
\* a step that changes the registry is the loop running the registration
\* handed to it; a step that reads it (a broadcast, a listener's dispatch)
\* is the loop running a coroutine or a listener; a step in which a thread
\* calls or returns leaves the registry and the log alone
C14_Serialized ==
    /\ listeners' # listeners =>
          /\ loop # <<>>
          /\ Head(loop).type = "register"
          /\ loop' = Tail(loop)
          /\ Len(listeners') = Len(listeners) + 1
          /\ SubSeq(listeners', 1, Len(listeners)) = listeners
    /\ \A i \in NewEntries :
          history'[i].what \in {"fire", "invoke"} =>
              /\ loop # <<>>
              /\ Head(loop).type
                     \in {"task", "resume", "listener", "callback"}
    /\ (Len(threads') > Len(threads) \/ Len(calls') > Len(calls)) =>
          /\ listeners' = listeners
          /\ history' = history
          /\ Len(loop') = Len(loop) + 1
          /\ SubSeq(loop', 1, Len(loop)) = loop

\* once every registration call has returned the registry holds them all
C14_NoneLost ==
    (\A t \in DOMAIN threads : threads[t].pc = "returned") =>
        /\ Len(listeners) = Len(threads)
        /\ \A t \in DOMAIN threads : C13_Installed(t)
        /\ \A t, u \in DOMAIN threads :
              threads[t].reg = threads[u].reg => t = u

\* C14: when listen, listen_platform, discover and load_platform are called
\* concurrently from external threads, the registry is read and written
\* only by steps of the loop, and after all N registration calls have
\* returned the registry holds all N registrations.
C14_RegistryOnLoopOnly == [][C14_Serialized]_vars /\ []C14_NoneLost

\* two registration calls were blocked at the same time while a producer's
\* coroutine was scheduled, and both have returned
C14_Witness ==
    /\ Len(threads) = 2
    /\ \A t \in DOMAIN threads : threads[t].pc = "returned"
    /\ threads[1].returned_at > 0
    /\ calls # <<>>

\* two threads are blocked in a registration call while a coroutine handed
\* over by a producer's thread is waiting on the loop
C14_WitnessConcurrent ==
    /\ Len(threads) = 2
    /\ \A t \in DOMAIN threads : threads[t].pc = "blocked"
    /\ \E c \in DOMAIN calls : calls[c].pc = "scheduled"

\* ------------------------------------------------------------------- C15
\* the activation routine has made its load_platform call in the given form
C15_Started(form) == setup.pc # "idle" /\ setup.form = form

\* the call's arguments pass the guards of async_load_platform
C15_Guarded ==
    /\ calls[setup.call].hass_config # {}
    /\ setup.component \notin DEPENDENCY_BLACKLIST

C15_Completed == setup.pc = "done"

C15_Broadcast == Cardinality(Fires(setup.call)) = 1

\* C15 as stated: with the fire-and-forget form the activation eventually
\* completes and, after it completed successfully, the platform event is
\* eventually broadcast exactly once
C15_Original ==
    /\ C15_Started("task") ~> C15_Completed
    /\ (C15_Started("task") /\ C15_Completed /\ setup.result)
           ~> C15_Broadcast
    /\ [](C15_Started("task") => Cardinality(Fires(setup.call)) <= 1)

\* C15 (amended): when the activation routine of a component uses the
\* fire-and-forget form, under a fair scheduler the activation eventually
\* completes; after it completed successfully, and provided the call was
\* given a non-empty hass_config and the component is not in the deny-list,
\* the platform event is eventually broadcast, and it is never broadcast
\* more than once.
C15_FireAndForgetCompletes ==
    /\ C15_Started("task") ~> C15_Completed
    /\ (C15_Started("task") /\ C15_Guarded /\ C15_Completed /\ setup.result)
           ~> C15_Broadcast
    /\ [](C15_Started("task") => Cardinality(Fires(setup.call)) <= 1)

\* the scheduled coroutine ran while the activation was in progress, was
\* suspended on it, and broadcast after the activation succeeded
C15_Witness ==
    /\ C15_Started("task")
    /\ C15_Completed
    /\ setup.result
    /\ SetupCalls(setup.call) # {}
    /\ C15_Broadcast

\* ------------------------------------------------------------------- C16
\* neither the activation nor the call has completed, and nothing was
\* broadcast
C16_Stuck ==
    /\ setup.pc = "suspended"
    /\ calls[setup.call].pc = "awaiting"
    /\ Fires(setup.call) = {}

\* C16 as stated: whenever the activation routine of C awaits
\* async_load_platform(C, ...) inline while C is not active, neither the
\* activation nor the call ever completes and no platform event is broadcast
C16_Original == C15_Started("await") => C16_Stuck

\* C16 (amended): if the activation routine of C awaits
\* async_load_platform(C, ...) inline, with a non-empty hass_config and C
\* not in the deny-list, while C is not active, then from that moment on the
\* activation is suspended on the call and the call on the activation:
\* neither ever completes and no platform event for C is broadcast.
C16_AwaitingFormDeadlocks ==
    (C15_Started("await") /\ C15_Guarded) => C16_Stuck

\* the deadlock: routine and call wait for each other and the loop is idle
C16_Witness ==
    /\ C15_Started("await")
    /\ C15_Guarded
    /\ C16_Stuck
    /\ loop = <<>>
====
